---------------------------- MODULE Spec2Model ----------------------------
(***************************************************************************)
(* Model of dms10_config: the Console (src/src/console.rs), the Fetcher    *)
(* (src/src/fetcher.rs) and the driving loop of main (src/src/main.rs).    *)
(*                                                                         *)
(* Bytes are their ASCII codes and a string is the sequence of its bytes,  *)
(* so that to_uppercase, the {:4} padding, ends_with, starts_with and the  *)
(* lexicographic order of filenames are computed, not assumed.             *)
(***************************************************************************)
EXTENDS Integers, Sequences, FiniteSets, TLC

\* ------------------------------------------------------------------ bytes
LF == 10
CR == 13
SP == 32

\* "  # "  (main.rs: static HASH)
HASH == <<32, 32, 35, 32>>
\* "    "  (the blank line printed before the REQ prompt)
BLANK4 == <<32, 32, 32, 32>>
\* "    REQ   "
REQ_LINE == <<32, 32, 32, 32, 82, 69, 81, 32, 32, 32>>
\* "****\n"
STARS == <<42, 42, 42, 42, 10>>

RECURSIVE Spaces(_)
Spaces(n) == IF n <= 0 THEN <<>> ELSE <<SP>> \o Spaces(n - 1)

\* str::to_uppercase restricted to ASCII: a..z become A..Z, the rest is kept
UpperByte(c) == IF c >= 97 /\ c <= 122 THEN c - 32 ELSE c
to_uppercase(s) == [i \in 1..Len(s) |-> UpperByte(s[i])]

\* format!("{:4}", s): left-aligned, padded with spaces to a width of at least 4
Pad4(s) == s \o Spaces(4 - Len(s))

\* dmo_prompt with the bug of "    {}  ", with no width
DmoPromptNoPad(prompt) == Spaces(4) \o prompt \o Spaces(2)

\* fn dmo_prompt(prompt) = format!("    {:4}  ", prompt)
dmo_prompt(prompt) == Spaces(4) \o Pad4(prompt) \o Spaces(2)

\* slice::ends_with / slice::starts_with
ends_with(b, needle) ==
    /\ Len(needle) <= Len(b)
    /\ \A i \in 1..Len(needle) : b[Len(b) - Len(needle) + i] = needle[i]

starts_with(b, needle) ==
    /\ Len(needle) <= Len(b)
    /\ \A i \in 1..Len(needle) : b[i] = needle[i]

IsPrefix(s, t) == starts_with(t, s)

\* Ord for str / [u8]: lexicographic on bytes, a proper prefix is smaller
RECURSIVE BytesLess(_, _)
BytesLess(a, b) ==
    IF b = <<>> THEN FALSE
    ELSE IF a = <<>> THEN TRUE
    ELSE IF a[1] # b[1] THEN a[1] < b[1]
    ELSE BytesLess(Tail(a), Tail(b))

\* ----------------------------------------------------- Fetcher constructors
\* A Fetcher is [filename, interactions]; an interaction is <<send, expect>>.
Slash == <<47>>
DotTxt == <<46, 116, 120, 116>>
Ovly == <<111, 118, 108, 121, 32>>
Que == <<113, 117, 101, 10>>
Quei == <<113, 117, 101, 105, 10>>
All == <<97, 108, 108, 10>>
CliNl == <<99, 108, 105, 10>>
REQ == <<82, 69, 81>>
TYP == <<84, 89, 80>>
CLI == <<67, 76, 73>>
OvlyTrns == <<111, 118, 108, 121, 32, 116, 114, 110, 115, 10>>
TrnsActiveDir == <<84, 82, 78, 83, 47, 97, 99, 116, 105, 118, 101, 47>>
TrnsInactiveDir == <<84, 82, 78, 83, 47, 105, 110, 97, 99, 116, 105, 118, 101, 47>>
\* "    TYP    "
WideTyp == <<32, 32, 32, 32, 84, 89, 80, 32, 32, 32, 32>>

DmoFilename(ovly, typ) == to_uppercase(ovly) \o Slash \o to_uppercase(typ) \o DotTxt

common_dmo_with_prompt(ovly, typ, prompt) ==
    [ filename |-> DmoFilename(ovly, typ),
      interactions |-> << <<STARS, HASH>>,
                          <<Ovly \o ovly \o <<LF>>, dmo_prompt(REQ)>>,
                          <<Que, dmo_prompt(TYP)>>,
                          <<typ \o <<LF>>, prompt>>,
                          <<All, dmo_prompt(REQ)>> >> ]

common_dmo(ovly, typ) == common_dmo_with_prompt(ovly, typ, dmo_prompt(to_uppercase(typ)))

wide_dmo_with_prompt(ovly, typ, prompt) ==
    [ filename |-> DmoFilename(ovly, typ),
      interactions |-> << <<STARS, HASH>>,
                          <<Ovly \o ovly \o <<LF>>, dmo_prompt(REQ)>>,
                          <<Que, WideTyp>>,
                          <<typ \o <<LF>>, prompt>>,
                          <<All, dmo_prompt(REQ)>> >> ]

common_dmo_no_prompt(ovly, typ) ==
    [ filename |-> DmoFilename(ovly, typ),
      interactions |-> << <<STARS, HASH>>,
                          <<Ovly \o ovly \o <<LF>>, dmo_prompt(REQ)>>,
                          <<Que, dmo_prompt(TYP)>>,
                          <<typ \o <<LF>>, dmo_prompt(REQ)>> >> ]

cli(ovly, c, prompt) ==
    [ filename |-> DmoFilename(ovly, c),
      interactions |-> << <<STARS, HASH>>,
                          <<Ovly \o ovly \o <<LF>>, dmo_prompt(REQ)>>,
                          <<Que, dmo_prompt(TYP)>>,
                          <<CliNl, dmo_prompt(CLI)>>,
                          <<c \o <<LF>>, prompt>>,
                          <<All, dmo_prompt(REQ)>> >> ]

trns_active(typ) ==
    [ filename |-> TrnsActiveDir \o to_uppercase(typ) \o DotTxt,
      interactions |-> << <<STARS, HASH>>,
                          <<OvlyTrns, dmo_prompt(REQ)>>,
                          <<Que, dmo_prompt(TYP)>>,
                          <<typ \o <<LF>>, dmo_prompt(to_uppercase(typ))>>,
                          <<All, dmo_prompt(REQ)>> >> ]

trns_inactive(typ) ==
    [ filename |-> TrnsInactiveDir \o to_uppercase(typ) \o DotTxt,
      interactions |-> << <<STARS, HASH>>,
                          <<OvlyTrns, dmo_prompt(REQ)>>,
                          <<Quei, dmo_prompt(TYP)>>,
                          <<typ \o <<LF>>, dmo_prompt(to_uppercase(typ))>>,
                          <<All, dmo_prompt(REQ)>> >> ]

\* ------------------------------------------------------------- catalogue
\* The fetchers vector of main before sorting, cut down to two of its
\* entries and kept in the order main pushes them: hunt/dnh is its first
\* entry and ain/adsc its third.
\* "hunt", "dnh", "    HTGP   "; "ain", "adsc"
FetchersUnsorted ==
    << common_dmo_with_prompt(<<104, 117, 110, 116>>, <<100, 110, 104>>,
                              <<32, 32, 32, 32, 72, 84, 71, 80, 32, 32, 32>>),
       common_dmo_no_prompt(<<97, 105, 110>>, <<97, 100, 115, 99>>) >>

\* fetchers.sort_unstable_by(|x, y| x.filename().cmp(y.filename()))
RECURSIVE InsertByFilename(_, _)
InsertByFilename(f, s) ==
    IF s = <<>> THEN <<f>>
    ELSE IF BytesLess(f.filename, s[1].filename) THEN <<f>> \o s
    ELSE <<s[1]>> \o InsertByFilename(f, Tail(s))

\* main with the bug of leaving out the sort
SortKeeps(s) == s

RECURSIVE SortByFilename(_)
SortByFilename(s) ==
    IF s = <<>> THEN <<>> ELSE InsertByFilename(s[1], SortByFilename(Tail(s)))

Fetchers == SortByFilename(FetchersUnsorted)
NumFetchers == Len(Fetchers)


\* ---------------------------------------------------------------- Console
\* Console::send with the bug of echoing before the data, not after
SendEchoesFirst(buf, data) == data \o buf

\* Console::send, after write_all succeeded: the data is echoed into buffer
send(buf, data) == buf \o data

\* read_into_buffer with the bug of assigning the new bytes instead of appending
ReadReplaces(buf, new_buf) == new_buf

\* read_into_buffer with the bug of appending the new bytes twice
ReadTwice(buf, new_buf) == buf \o new_buf \o new_buf

\* Console::read_into_buffer, for a read of count > 0 bytes
read_into_buffer(buf, new_buf) == buf \o new_buf

\* check_buffer_tail with the bug of trying b'\n' alone
CheckTailLfOnly(buf, expected_prompt) == ends_with(buf, <<LF>> \o expected_prompt)

\* check_buffer_tail with the bug of finding the needle anywhere in the buffer
CheckTailContains(buf, expected_prompt) ==
    \E newline \in {LF, CR} : \E n \in 1..Len(buf) :
        ends_with(SubSeq(buf, 1, n), <<newline>> \o expected_prompt)

\* Console::check_buffer_tail
check_buffer_tail(buf, expected_prompt) ==
    \E newline \in {LF, CR} : ends_with(buf, <<newline>> \o expected_prompt)

\* run_until_human_prompt with the bug of returning a clone of the buffer
TakeKeeps(buf) == buf

\* std::mem::take(&mut self.buffer): what is left in self.buffer
TakeBuffer(buf) == <<>>

\* -------------------------------------------------- Fetcher::fetch_and_write
RECURSIVE FirstLF(_, _)
FirstLF(b, i) ==
    IF i > Len(b) THEN 0 ELSE IF b[i] = LF THEN i ELSE FirstLF(b, i + 1)

\* buffer.split(|&byte| byte == b'\n').collect(): n line feeds give n+1 slices
RECURSIVE SplitLF(_)
SplitLF(b) ==
    LET i == FirstLF(b, 1)
    IN  IF i = 0 THEN <<b>>
        ELSE <<SubSeq(b, 1, i - 1)>> \o SplitLF(SubSeq(b, i + 1, Len(b)))

\* fetch_and_write with the bug of an if in place of the while
StripOneLeadingCR(line) == IF line # <<>> /\ line[1] = CR THEN Tail(line) ELSE line

\* while let [b'\r', rest @ ..] = line { *line = rest; }
RECURSIVE StripLeadingCR(_)
StripLeadingCR(line) ==
    IF line # <<>> /\ line[1] = CR THEN StripLeadingCR(Tail(line)) ELSE line

\* while let [rest @ .., b'\r'] = line { *line = rest; }
RECURSIVE StripTrailingCR(_)
StripTrailingCR(line) ==
    IF line # <<>> /\ line[Len(line)] = CR
    THEN StripTrailingCR(SubSeq(line, 1, Len(line) - 1))
    ELSE line

StripCR(line) == StripTrailingCR(StripLeadingCR(line))

StripLines(lines) == [i \in 1..Len(lines) |-> StripCR(lines[i])]

\* lines.iter().position(|&line| line.starts_with(HASH.as_bytes())), 0 for None
RECURSIVE FirstHash(_, _)
FirstHash(lines, i) ==
    IF i > Len(lines) THEN 0
    ELSE IF starts_with(lines[i], HASH) THEN i
    ELSE FirstHash(lines, i + 1)

\* fetch_and_write with the bug of leaving out the header trim
TrimHeaderKeeps(lines) == lines

\* fetch_and_write with the bug of draining ..=first_hash
TrimHeaderInclusive(lines) ==
    LET first_hash == FirstHash(lines, 1)
    IN  IF first_hash = 0 THEN lines ELSE SubSeq(lines, first_hash + 1, Len(lines))

\* if let Some(first_hash) = ... { lines.drain(..first_hash); }
TrimHeader(lines) ==
    LET first_hash == FirstHash(lines, 1)
    IN  IF first_hash = 0 THEN lines ELSE SubSeq(lines, first_hash, Len(lines))

\* fetch_and_write with the bug of a while in place of the if
RECURSIVE TrimTrailingAll(_)
TrimTrailingAll(lines) ==
    IF /\ Len(lines) >= 2
       /\ lines[Len(lines) - 1] = BLANK4
       /\ lines[Len(lines)] = REQ_LINE
    THEN TrimTrailingAll(SubSeq(lines, 1, Len(lines) - 2))
    ELSE lines

\* strip the blank line and the REQ prompt printed after the command completed
TrimTrailingPrompt(lines) ==
    IF /\ Len(lines) >= 2
       /\ lines[Len(lines) - 1] = BLANK4
       /\ lines[Len(lines)] = REQ_LINE
    THEN SubSeq(lines, 1, Len(lines) - 2)
    ELSE lines

CleanLines(buf) == TrimTrailingPrompt(TrimHeader(StripLines(SplitLF(buf))))

\* for line in lines { file.write_all(line); file.write_all(b"\n") }, the
\* first k lines of it
RECURSIVE WriteLines(_, _)
WriteLines(lines, k) ==
    IF k = 0 THEN <<>> ELSE WriteLines(lines, k - 1) \o lines[k] \o <<LF>>

\* ------------------------------------------------------------------ bounds
\* what the environment does in one run besides answering every send with
\* "\n" + the awaited prompt: signals (ctrl-C), expiries of the stall timer,
\* reads of anything else, and failures of the transport, of stdin and of the
\* file system
MaxEvents == 2

\* ------------------------------------------------------------------- state
VARIABLES
    files,       \* main: the HashSet of target filenames given by the operator
    task,        \* main: index in Fetchers of the fetcher of the for loop
    pc,          \* main: "start" (head of 'repeat_this_fetcher), "send" and
                 \*   "wait" (fetch_future pending in write_all / in the read),
                 \*   "menu" (blocked in stdin.read_line), "done", "failed"
    resume,      \* where the pinned fetch_future is pending while pc = "menu"
    step,        \* Fetcher::fetch: index of the interaction of the for loop
    output,      \* Fetcher::fetch: the output accumulator
    buffer,      \* Console.buffer
    disk,        \* the files of the working directory, by filename
    err,         \* the error main returned with, "none" while it runs
    warnings,    \* number of stall warnings logged
    cancels,     \* number of signals handled
    events,      \* number of environment events counted against MaxEvents
    leftover,    \* history: what Console.buffer held when fetch began
    attemptLog,  \* history: the bytes sent or received since fetch began
    received,    \* history: per interaction begun since fetch began, the bytes read
    trace,       \* history: the sends and matches since fetch began
    attempt,     \* history: the task of the last fetch begun and how it came
    pending,     \* history: "restart"/"skip" after that choice, until a fetch begins
    touched,     \* history: the tasks that sent to or read from the Console
    arg,         \* input of the function under test (function specifications)
    res          \* its result, <<>> before it is applied

vars == <<files, task, pc, resume, step, output, buffer, disk, err, warnings,
          cancels, events, leftover, attemptLog, received, trace, attempt, pending,
          touched, arg, res>>

Absent == [exists |-> FALSE, bytes |-> <<>>]
\* a file left by an earlier run: "x\n"
Stale == [exists |-> TRUE, bytes |-> <<120, 10>>]

Filenames == {Fetchers[t].filename : t \in 1..NumFetchers}

\* a target name that is no fetcher's filename: "ain/adsc.txt"
OtherName == <<97, 105, 110, 47, 97, 100, 115, 99, 46, 116, 120, 116>>

\* the operator names no target or one
FilterChoices == {{}} \cup {{f} : f \in Filenames \cup {OtherName}}

\* the first file is there from an earlier run, the others are not
InitialDisk == [f \in Filenames |-> IF f = Fetchers[1].filename THEN Stale ELSE Absent]

\* main 52-87: the Console is connected and logged in; the last
\* run_until_human_prompt(HASH) of the login took the buffer
Boot ==
    /\ task = 1
    /\ pc = "start"
    /\ resume = "none"
    /\ step = 1
    /\ output = <<>>
    /\ buffer = <<>>
    /\ disk = InitialDisk
    /\ err = "none"
    /\ warnings = 0
    /\ cancels = 0
    /\ events = 0
    /\ leftover = <<>>
    /\ attemptLog = <<>>
    /\ received = <<>>
    /\ trace = <<>>
    /\ attempt = [task |-> 0, origin |-> "fresh"]
    /\ pending = "fresh"
    /\ touched = {}

Init ==
    /\ files \in FilterChoices
    /\ Boot
    /\ arg = <<>>
    /\ res = <<>>

Interactions == Fetchers[task].interactions
Outbound == Interactions[step][1]
Expected == Interactions[step][2]

\* the for loop of main moves to fetcher t: past the last one main returns Ok
LoopHead(t) == IF t > NumFetchers THEN "done" ELSE "start"

\* main with the bug of ignoring the operator's list
FilteredNever(t) == FALSE

\* if !files.is_empty() && !files.contains(fetcher.filename()) { continue 'next_fetcher }
Filtered(t) == files # {} /\ Fetchers[t].filename \notin files

\* main with the bug of going on with the next fetcher after an error
AfterErrorContinues(t) == [pc |-> LoopHead(t + 1), task |-> t + 1]

\* r.with_context(..)? and the other ? of main: main returns the error
AfterError(t) == [pc |-> "failed", task |-> t]

\* fetch with the bug of skipping an interaction
NextStepSkips(i) == i + 2

\* for (send, expect) in &self.interactions: the next interaction
NextStep(i) == i + 1

\* main with the bug of creating fetch_future inside 'keep_waiting
KeepWaitingRecreates(s) == [pc |-> "send", step |-> 1, output |-> <<>>]

\* "w" => continue 'keep_waiting: the pinned fetch_future is polled again
KeepWaiting(s) == s

\* run_until_human_prompt with the bug of returning the Elapsed error
AfterElapsedFails(p) == "failed"

\* run_until_human_prompt 52-59: Err(_elapsed) logs the warning and the loop
\* calls read_until_prompt again
AfterElapsed(p) == p

\* main with the bug of a default arm that goes on waiting
AfterOtherResumes(p, r) == r

\* main 180: _ => eprintln!(..), the inner loop prints the menu and reads again
AfterOther(p, r) == p

\* fetch with the bug of returning before the last interaction
IsLastStepEarly(i, n) == i >= n - 1

\* fetch 247-259: the for loop is over after the last interaction and fetch
\* returns Ok(output)
IsLastStep(i, n) == i = n

FailAfter(kind, n) ==
    /\ n < MaxEvents
    /\ events' = n + 1
    /\ err' = kind
    /\ pc' = AfterError(task).pc
    /\ task' = AfterError(task).task

Fail(kind) == FailAfter(kind, events)

\* ----------------------------------------------------------------- actions
\* main 148-151: the fetcher is not in the operator's list and is skipped
SkipFiltered ==
    /\ pc = "start"
    /\ Filtered(task)
    /\ task' = task + 1
    /\ pc' = LoopHead(task + 1)
    /\ UNCHANGED <<files, resume, step, output, buffer, disk, err, warnings,
                   cancels, events, leftover, attemptLog, received, trace, attempt,
                   pending, touched, arg, res>>

\* main 153-160, fetch_and_write 171-174, fetch 245-247: a new fetch_future is
\* polled up to its first await, the write_all of the first interaction
StartFetch ==
    /\ pc = "start"
    /\ ~Filtered(task)
    /\ pc' = "send"
    /\ step' = 1
    /\ output' = <<>>
    /\ attemptLog' = <<>>
    /\ received' = <<>>
    /\ trace' = <<>>
    /\ attempt' = [task |-> task, origin |-> pending]
    /\ pending' = "fresh"
    /\ leftover' = buffer
    /\ UNCHANGED <<files, task, resume, buffer, disk, err, warnings, cancels,
                   events, touched, arg, res>>

\* Console::send, write_all succeeds
SendOk ==
    /\ pc = "send"
    /\ buffer' = send(buffer, Outbound)
    /\ attemptLog' = attemptLog \o Outbound
    /\ received' = Append(received, <<>>)
    /\ trace' = Append(trace, <<"send", step>>)
    /\ touched' = touched \cup {task}
    /\ pc' = "wait"
    /\ UNCHANGED <<files, task, resume, step, output, disk, err, warnings,
                   cancels, events, leftover, attempt, pending, arg, res>>

\* Console::send, write_all fails: "writing to child", "sending ..", main returns
SendFails ==
    /\ pc = "send"
    /\ Fail("write")
    /\ touched' = touched \cup {task}
    /\ UNCHANGED <<files, resume, step, output, buffer, disk, warnings, cancels,
                   leftover, attemptLog, received, trace, attempt, pending,
                   arg, res>>

\* what one read of the child's stdout may deliver while prompt is awaited:
\* "\n" + prompt, and the other shapes
NormalChunk(prompt) == <<LF>> \o prompt
OddChunks(prompt) ==
    { <<CR>> \o prompt,
      prompt,
      <<LF>> \o prompt \o <<120>>,
      <<CR, 120, CR, LF>>,
      <<CR, LF>> \o BLANK4 \o <<CR, LF>> \o prompt }
Chunks(prompt) == {NormalChunk(prompt)} \cup OddChunks(prompt)

ReadAllowed(chunk) == chunk = NormalChunk(Expected) \/ events < MaxEvents
EventsAfter(chunk) == IF chunk = NormalChunk(Expected) THEN events ELSE events + 1

\* read_until_prompt 83-89: a read of count > 0 after which the tail does not
\* match; the loop reads again
ReadNoMatchWith(chunk) ==
    /\ ReadAllowed(chunk)
    /\ ~check_buffer_tail(read_into_buffer(buffer, chunk), Expected)
    /\ buffer' = read_into_buffer(buffer, chunk)
    /\ attemptLog' = attemptLog \o chunk
    /\ received' = [received EXCEPT ![step] = @ \o chunk]
    /\ events' = EventsAfter(chunk)
    /\ touched' = touched \cup {task}
    /\ UNCHANGED <<files, task, pc, resume, step, output, disk, err, warnings,
                   cancels, leftover, trace, attempt, pending, arg, res>>

\* read_until_prompt returns Ok, run_until_human_prompt 61 takes the buffer,
\* fetch 256 appends it to output and goes on to the next interaction
ReadMatchStepWith(chunk) ==
    /\ ReadAllowed(chunk)
    /\ ~IsLastStep(step, Len(Interactions))
    /\ LET got == read_into_buffer(buffer, chunk)
       IN  /\ check_buffer_tail(got, Expected)
           /\ buffer' = TakeBuffer(got)
           /\ output' = output \o got
    /\ attemptLog' = attemptLog \o chunk
    /\ received' = [received EXCEPT ![step] = @ \o chunk]
    /\ trace' = Append(trace, <<"match", step>>)
    /\ events' = EventsAfter(chunk)
    /\ touched' = touched \cup {task}
    /\ step' = NextStep(step)
    /\ pc' = "send"
    /\ UNCHANGED <<files, leftover, task, resume, disk, err, warnings, cancels, attempt,
                   pending, arg, res>>

\* how far fetch_and_write 226-235 gets with n lines to write.  -1:
\* File::create fails; 0 <= written < n: a write fails after that many lines
\* (the first write and the last one are the ones tried); n: all are written
WriteOutcomes(n) == {-1, n} \cup {k \in {0, n - 1} : k >= 0 /\ k < n}

\* the last interaction matches: fetch returns output and fetch_and_write
\* 186-235 cleans and writes it with no await in between; main goes on with
\* the next fetcher when all is written and returns the error otherwise
ReadMatchLastWith(chunk, got, lines, written) ==
    /\ LET name == Fetchers[task].filename
       IN  /\ buffer' = TakeBuffer(got)
           /\ output' = output \o got
           /\ disk' = IF written = -1 THEN disk
                      ELSE [disk EXCEPT ![name] =
                               [exists |-> TRUE, bytes |-> WriteLines(lines, written)]]
           /\ IF written = Len(lines)
              THEN /\ task' = task + 1
                   /\ pc' = LoopHead(task + 1)
                   /\ err' = err
                   /\ events' = EventsAfter(chunk)
              ELSE FailAfter(IF written = -1 THEN "create" ELSE "file_write",
                             EventsAfter(chunk))
    /\ attemptLog' = attemptLog \o chunk
    /\ received' = [received EXCEPT ![step] = @ \o chunk]
    /\ trace' = Append(trace, <<"match", step>>)
    /\ touched' = touched \cup {task}
    /\ UNCHANGED <<files, leftover, resume, step, warnings, cancels, attempt, pending,
                   arg, res>>

ReadNoMatch == pc = "wait" /\ \E chunk \in Chunks(Expected) : ReadNoMatchWith(chunk)

ReadMatchStep == pc = "wait" /\ \E chunk \in Chunks(Expected) : ReadMatchStepWith(chunk)

ReadMatchLast ==
    /\ pc = "wait"
    /\ IsLastStep(step, Len(Interactions))
    /\ \E chunk \in Chunks(Expected) :
          /\ ReadAllowed(chunk)
          /\ check_buffer_tail(read_into_buffer(buffer, chunk), Expected)
          /\ LET got == read_into_buffer(buffer, chunk)
                 lines == CleanLines(output \o got)
             IN  \E written \in WriteOutcomes(Len(lines)) :
                    ReadMatchLastWith(chunk, got, lines, written)

\* read_into_buffer 97-100: count == 0, "subprocess returned EOF"
ReadEOF ==
    /\ pc = "wait"
    /\ Fail("eof")
    /\ touched' = touched \cup {task}
    /\ UNCHANGED <<files, resume, step, output, buffer, disk, warnings, cancels,
                   leftover, attemptLog, received, trace, attempt, pending,
                   arg, res>>

\* read_into_buffer 96: read_buf returns Err
ReadError ==
    /\ pc = "wait"
    /\ Fail("read")
    /\ touched' = touched \cup {task}
    /\ UNCHANGED <<files, resume, step, output, buffer, disk, warnings, cancels,
                   leftover, attemptLog, received, trace, attempt, pending,
                   arg, res>>

\* run_until_human_prompt 51-59: TIMEOUT elapses, the pending read_until_prompt
\* is dropped (read_buf is cancel safe: no byte is lost), the warning is
\* logged and the loop starts read_until_prompt again
Timeout ==
    /\ pc = "wait"
    /\ events < MaxEvents
    /\ events' = events + 1
    /\ warnings' = warnings + 1
    /\ pc' = AfterElapsed(pc)
    /\ UNCHANGED <<files, task, resume, step, output, buffer, disk, err,
                   cancels, leftover, attemptLog, received, trace, attempt,
                   pending, touched, arg, res>>

\* main 164: ctrl_c completes while fetch_future is pending, in write_all of
\* send or in read_buf of run_until_human_prompt; main blocks in
\* stdin.read_line and polls nothing
CtrlC ==
    /\ pc \in {"send", "wait"}
    /\ events < MaxEvents
    /\ events' = events + 1
    /\ cancels' = cancels + 1
    /\ resume' = pc
    /\ pc' = "menu"
    /\ UNCHANGED <<files, task, step, output, buffer, disk, err, warnings,
                   leftover, attemptLog, received, trace, attempt, pending,
                   touched, arg, res>>

\* u8::is_ascii_whitespace
IsAsciiWhitespace(c) == c \in {32, 9, 10, 12, 13}

\* <[u8]>::trim_ascii_end / str::trim_ascii_end
RECURSIVE trim_ascii_end(_)
trim_ascii_end(s) ==
    IF s # <<>> /\ IsAsciiWhitespace(s[Len(s)])
    THEN trim_ascii_end(SubSeq(s, 1, Len(s) - 1))
    ELSE s

\* the lines the operator may type: "w\n", "r\n", "n\n", "r\r\n", "n  \n",
\* "x\n", " w\n", "wr\n", and "" (end of input)
MenuLines ==
    { <<119, 10>>, <<114, 10>>, <<110, 10>>, <<114, 13, 10>>, <<110, 32, 32, 10>>,
      <<120, 10>>, <<32, 119, 10>>, <<119, 114, 10>>, <<>> }

\* main 177: "w"
MenuKeepWaiting(line) ==
    /\ pc = "menu"
    /\ trim_ascii_end(line) = <<119>>
    /\ LET s == KeepWaiting([pc |-> resume, step |-> step, output |-> output])
       IN  /\ pc' = s.pc
           /\ step' = s.step
           /\ output' = s.output
    /\ resume' = "none"
    /\ UNCHANGED <<files, task, buffer, disk, err, warnings, cancels, events,
                   leftover, attemptLog, received, trace, attempt, pending,
                   touched, arg, res>>

\* main 178: "r", fetch_future is dropped and the same fetcher starts again
MenuRepeat(line) ==
    /\ pc = "menu"
    /\ trim_ascii_end(line) = <<114>>
    /\ pc' = "start"
    /\ pending' = "restart"
    /\ resume' = "none"
    /\ step' = 1
    /\ output' = <<>>
    /\ UNCHANGED <<files, task, buffer, disk, err, warnings, cancels, events,
                   leftover, attemptLog, received, trace, attempt, touched,
                   arg, res>>

\* main 179: "n", fetch_future is dropped and the for loop goes on
MenuNext(line) ==
    /\ pc = "menu"
    /\ trim_ascii_end(line) = <<110>>
    /\ task' = task + 1
    /\ pc' = LoopHead(task + 1)
    /\ pending' = "skip"
    /\ resume' = "none"
    /\ step' = 1
    /\ output' = <<>>
    /\ UNCHANGED <<files, buffer, disk, err, warnings, cancels, events, leftover, attemptLog, received, trace, attempt, touched, arg, res>>

\* main 180: anything else, the menu is printed again
MenuOther(line) ==
    /\ pc = "menu"
    /\ trim_ascii_end(line) \notin {<<119>>, <<114>>, <<110>>}
    /\ pc' = AfterOther(pc, resume)
    /\ UNCHANGED <<files, task, resume, step, output, buffer, disk, err,
                   warnings, cancels, events, leftover, attemptLog, received,
                   trace, attempt, pending, touched, arg, res>>

\* main 175: read_line fails, "reading from stdin failed", main returns
MenuReadFails ==
    /\ pc = "menu"
    /\ Fail("stdin")
    /\ resume' = "none"
    /\ UNCHANGED <<files, step, output, buffer, disk, warnings, cancels,
                   leftover, attemptLog, received, trace, attempt, pending,
                   touched, arg, res>>

Next ==
    \/ SkipFiltered
    \/ StartFetch
    \/ SendOk
    \/ SendFails
    \/ ReadNoMatch
    \/ ReadMatchStep
    \/ ReadMatchLast
    \/ ReadEOF
    \/ ReadError
    \/ Timeout
    \/ CtrlC
    \/ \E line \in MenuLines : MenuKeepWaiting(line)
    \/ \E line \in MenuLines : MenuRepeat(line)
    \/ \E line \in MenuLines : MenuNext(line)
    \/ \E line \in MenuLines : MenuOther(line)
    \/ MenuReadFails

Spec == Init /\ [][Next]_vars

\* ------------------------------------------- check_buffer_tail on its own
\* longest buffer and longest prompt tried
MaxTailLen == 3
MaxPromptLen == 2

\* "\n", "\r", " " and "x"
TailBytes == {LF, CR, SP, 120}

BoundedSeq(S, n) == UNION {[1..m -> S] : m \in 0..n}

InitTail ==
    /\ files = {}
    /\ Boot
    /\ arg \in BoundedSeq(TailBytes, MaxTailLen) \X BoundedSeq(TailBytes, MaxPromptLen)
    /\ res = <<>>

CheckTail ==
    /\ res = <<>>
    /\ arg # <<>>
    /\ res' = <<check_buffer_tail(arg[1], arg[2])>>
    /\ UNCHANGED <<files, task, pc, resume, step, output, buffer, disk, err,
                   warnings, cancels, events, leftover, attemptLog, received, trace,
                   attempt, pending, touched, arg>>

NextTail == CheckTail

SpecTail == InitTail /\ [][NextTail]_vars

\* ------------------------------------- the steps of fetch_and_write on their own
\* the program's own state stays as it is after the login
ProgramIdle ==
    UNCHANGED <<files, task, pc, resume, step, output, buffer, disk, err,
                warnings, cancels, events, leftover, attemptLog, received,
                trace, attempt, pending, touched>>

\* most lines tried by the header trim
MaxLines == 3

\* "x", "  # S", "  # ", " # ", "" and "   # "
HeaderLines ==
    { <<120>>, HASH \o <<83>>, HASH, <<32, 35, 32>>, <<>>, <<32>> \o HASH }

InitHeader ==
    /\ files = {}
    /\ Boot
    /\ arg \in BoundedSeq(HeaderLines, MaxLines)
    /\ res = <<>>

\* fetch_and_write 210-215 on the lines arg
ApplyTrimHeader ==
    /\ res = <<>>
    /\ res' = <<TrimHeader(arg)>>
    /\ arg' = arg
    /\ ProgramIdle

NextHeader == ApplyTrimHeader

SpecHeader == InitHeader /\ [][NextHeader]_vars

\* most lines tried by the trim of the trailing prompt
MaxTrailLines == 4

\* "    ", "    REQ   ", "" and "x"
TrailLines == { BLANK4, REQ_LINE, <<>>, <<120>> }

InitTrailing ==
    /\ files = {}
    /\ Boot
    /\ arg \in BoundedSeq(TrailLines, MaxTrailLines)
    /\ res = <<>>

\* fetch_and_write 218-224 on the lines arg
ApplyTrimTrailingPrompt ==
    /\ res = <<>>
    /\ res' = <<TrimTrailingPrompt(arg)>>
    /\ arg' = arg
    /\ ProgramIdle

NextTrailing == ApplyTrimTrailingPrompt

SpecTrailing == InitTrailing /\ [][NextTrailing]_vars

\* longest byte sequence split and stripped
MaxBytes == 5

\* "\n", "\r" and "x"
StripBytes == {LF, CR, 120}

InitStrip ==
    /\ files = {}
    /\ Boot
    /\ arg \in BoundedSeq(StripBytes, MaxBytes)
    /\ res = <<>>

\* fetch_and_write 186-204 on the bytes arg: the slices of the split, and
\* the slices once shrunk
ApplyStrip ==
    /\ res = <<>>
    /\ res' = <<SplitLF(arg), StripLines(SplitLF(arg))>>
    /\ arg' = arg
    /\ ProgramIdle

NextStrip == ApplyStrip

SpecStrip == InitStrip /\ [][NextStrip]_vars

\* ------------------------------------------- the constructors on their own
\* longest ovly and typ given to a constructor
MaxNameLen == 2

\* "a" and "z"
NameBytes == {97, 122}

\* "    X     " and ">"
PromptChoices == { <<32, 32, 32, 32, 88, 32, 32, 32, 32, 32>>, <<62>> }

Variants ==
    { "common_dmo", "common_dmo_with_prompt", "wide_dmo_with_prompt",
      "common_dmo_no_prompt", "cli", "trns_active", "trns_inactive" }

InitCtor ==
    /\ files = {}
    /\ Boot
    /\ arg \in Variants \X BoundedSeq(NameBytes, MaxNameLen)
                        \X BoundedSeq(NameBytes, MaxNameLen) \X PromptChoices
    /\ res = <<>>

\* the constructor arg[1] of Fetcher applied to ovly arg[2], typ arg[3] and,
\* where it takes one, prompt arg[4]
Construct(a) ==
    CASE a[1] = "common_dmo" -> common_dmo(a[2], a[3])
      [] a[1] = "common_dmo_with_prompt" -> common_dmo_with_prompt(a[2], a[3], a[4])
      [] a[1] = "wide_dmo_with_prompt" -> wide_dmo_with_prompt(a[2], a[3], a[4])
      [] a[1] = "common_dmo_no_prompt" -> common_dmo_no_prompt(a[2], a[3])
      [] a[1] = "cli" -> cli(a[2], a[3], a[4])
      [] a[1] = "trns_active" -> trns_active(a[3])
      [] a[1] = "trns_inactive" -> trns_inactive(a[3])

ApplyConstruct ==
    /\ res = <<>>
    /\ res' = <<Construct(arg)>>
    /\ arg' = arg
    /\ ProgramIdle

NextCtor == ApplyConstruct

SpecCtor == InitCtor /\ [][NextCtor]_vars

\* ------------------------------------------------------------------ claims
LastEvent == trace[Len(trace)]
Matched == trace # <<>> /\ LastEvent[1] = "match"

\* C1: within one execution of a fetcher the interactions run strictly in
\* sequence: the sends and matches since fetch began are send 1, match 1,
\* send 2, match 2, ..., so interaction N is sent only after interaction
\* N-1 matched and none is sent twice or skipped; the interaction the
\* execution is at is the one after the last match.
C1_StepsInSequence ==
    /\ \A k \in 1..Len(trace) :
          trace[k] = IF k % 2 = 1 THEN <<"send", (k + 1) \div 2>>
                                  ELSE <<"match", k \div 2>>
    /\ pc = "send" => Len(trace) = 2 * (step - 1)
    /\ pc = "wait" => Len(trace) = 2 * step - 1

C1_Witness == pc = "send" /\ step = 3 /\ Len(trace) = 4

\* C2: what the successful calls of run_until_human_prompt handed back
\* since fetch began (fetch appends each to output), followed by what is
\* still in the buffer, is exactly what the buffer held when fetch began
\* followed by the bytes sent and received since, in order; and right after
\* a successful return the buffer is empty.  So each return is the bytes
\* appended since the previous one and no byte is returned twice.
C2_DrainExact ==
    /\ (pending = "fresh" /\ attempt.task # 0) =>
          output \o buffer = leftover \o attemptLog
    /\ (pending = "fresh" /\ Matched) => buffer = <<>>

C2_Witness ==
    /\ pending = "fresh"
    /\ Matched
    /\ leftover # <<>>
    /\ Len(output) > Len(leftover)
    /\ pc = "send"

\* B ends with nl followed by P, for nl a line feed or a carriage return
EndsWithNewlineThenPrompt(B, P) ==
    /\ Len(B) >= Len(P) + 1
    /\ SubSeq(B, Len(B) - Len(P) + 1, Len(B)) = P
    /\ B[Len(B) - Len(P)] \in {LF, CR}

\* C3: for every buffer B and prompt P the tail check is true if and only if
\* B ends with LF followed by P or with CR followed by P; in particular it
\* is false for B = P and for LF, P and one more byte that is not itself the
\* end of such a tail.
C3_TailMatches ==
    res # <<>> =>
        /\ res[1] <=> EndsWithNewlineThenPrompt(arg[1], arg[2])
        /\ arg[1] = arg[2] => ~res[1]

C3_Witness ==
    /\ res = <<TRUE>>
    /\ arg[2] # <<>>
    /\ Len(arg[1]) > Len(arg[2]) + 1
    /\ arg[1][Len(arg[1]) - Len(arg[2])] = CR

\* C4: an expiry of the stall timer only logs a warning: the call is still
\* waiting, with the same buffer, output and interaction, and no error; and
\* a wait is left only by a match, by a zero-byte read or by a read error
\* (or is suspended by the operator's signal).
C4_StallIsAdvisory ==
    /\ [][warnings' # warnings =>
            /\ pc = "wait" /\ pc' = "wait"
            /\ buffer' = buffer /\ output' = output
            /\ step' = step /\ task' = task
            /\ trace' = trace /\ err' = "none"]_vars
    /\ [][(pc = "wait" /\ pc' # "wait") =>
            \/ pc' = "menu"
            \/ trace' = Append(trace, <<"match", step>>)
            \/ err' \in {"eof", "read"}]_vars

C4_Witness == warnings >= 2 /\ pc = "wait" /\ buffer # <<>> /\ err = "none"

\* C5 (as claimed): after the operator's "r" the same fetcher starts again
\* at its first interaction, and the output of the restarted execution holds
\* only bytes sent or received during it.
C5_RestartIsFresh ==
    /\ pending = "restart" => (pc = "start" /\ task = attempt.task /\ step = 1)
    /\ (attempt.origin = "restart" /\ pending = "fresh") =>
          IsPrefix(output, attemptLog)

\* C6 (as claimed): when an execution begun after the operator's "r" or "n"
\* is about to send its first interaction, the Console's buffer is empty.
C6_AbandonDiscardsBuffer ==
    (pc = "send" /\ trace = <<>> /\ attempt.origin \in {"restart", "skip"}) =>
        buffer = <<>>

\* the fetch of attempt.task ran to its end and its file was written
Completed ==
    /\ attempt.task # 0
    /\ pending = "fresh"
    /\ err = "none"
    /\ trace # <<>>
    /\ LastEvent = <<"match", Len(Fetchers[attempt.task].interactions)>>

FileOf(bytes) ==
    LET lines == CleanLines(bytes)
    IN  [exists |-> TRUE, bytes |-> WriteLines(lines, Len(lines))]

NotTargeted(t) == files # {} /\ Fetchers[t].filename \notin files

\* C8: with targets named, a fetcher that is not among them never sends to
\* or reads from the Console and its file is as it was, and skipping it
\* changes neither the buffer nor the disk; with no target named, a run that
\* ends with no signal and no error has executed every fetcher.
C8_FilterSkips ==
    /\ [](\A t \in 1..NumFetchers :
            NotTargeted(t) =>
                /\ t \notin touched
                /\ attempt.task # t
                /\ disk[Fetchers[t].filename] = InitialDisk[Fetchers[t].filename])
    /\ []((files = {} /\ pc = "done" /\ cancels = 0) =>
            /\ touched = 1..NumFetchers
            /\ \A t \in 1..NumFetchers :
                  disk[Fetchers[t].filename] # InitialDisk[Fetchers[t].filename])
    /\ [][(pc = "start" /\ NotTargeted(task)) =>
            /\ task' = task + 1
            /\ buffer' = buffer /\ disk' = disk
            /\ touched' = touched /\ attemptLog' = attemptLog]_vars

C8_Witness ==
    /\ pc = "done"
    /\ NotTargeted(1)
    /\ ~NotTargeted(2)
    /\ touched = {2}
    /\ disk[Fetchers[2].filename].exists

\* C9: a fatal error ends the run: once main has an error nothing is sent,
\* read or written any more, and the step that fails leaves the files of the
\* other fetchers as they were.
C9_FatalErrorEndsRun ==
    /\ [](err # "none" => pc = "failed")
    /\ [][err # "none" =>
            /\ buffer' = buffer /\ disk' = disk
            /\ touched' = touched /\ attemptLog' = attemptLog
            /\ trace' = trace /\ task' = task]_vars
    /\ [][(err = "none" /\ err' # "none") =>
            \A f \in Filenames :
                f # Fetchers[task].filename => disk'[f] = disk[f]]_vars

C9_Witness ==
    /\ err = "file_write"
    /\ files = {}
    /\ task = 1
    /\ NumFetchers > 1
    /\ touched = {1}

\* C10: the Console's buffer only grows, its old content staying a prefix
\* of the new one, except in the step of a successful match, which empties it.
C10_BufferAppendOnly ==
    [][\/ IsPrefix(buffer, buffer')
       \/ /\ buffer' = <<>>
          /\ trace' = Append(trace, <<"match", step>>)]_vars

C10_Witness ==
    /\ attempt.origin = "restart"
    /\ pc = "wait"
    /\ leftover # <<>>
    /\ Len(buffer) > Len(leftover) + Len(STARS)
    /\ warnings >= 0 /\ cancels >= 1

\* C11: the fetchers run one at a time in the lexicographic order of their
\* filenames: the catalogue is strictly ascending by filename; the for loop
\* only ever moves from a fetcher to the next one, and only when that fetcher
\* was filtered out, ran to its end, or was abandoned by the operator's "n";
\* the fetcher that sends is the one of the for loop, so every fetcher that
\* used the Console is at or before it; the operator's "r" keeps the
\* fetcher of the for loop.
C11_RunsInFilenameOrder ==
    /\ [](\A i \in 1..NumFetchers : \A j \in 1..NumFetchers :
            i < j => BytesLess(Fetchers[i].filename, Fetchers[j].filename))
    /\ [](\A t \in touched : t <= task)
    /\ [](pc \in {"send", "wait", "menu"} => attempt.task = task)
    /\ [][task' # task =>
            /\ task' = task + 1
            /\ \/ pc = "start" /\ Filtered(task)
               \/ pc = "menu" /\ pending' = "skip"
               \/ /\ pc = "wait"
                  /\ err' = "none"
                  /\ trace' = Append(trace, <<"match", Len(Interactions)>>)]_vars
    /\ [][pending' = "restart" => (task' = task /\ attempt'.task = task)]_vars

C11_Witness ==
    /\ task = 2
    /\ pc = "wait"
    /\ attempt = [task |-> 2, origin |-> "restart"]
    /\ touched = {1, 2}
    /\ disk[Fetchers[1].filename] # InitialDisk[Fetchers[1].filename]

\* the bytes of an execution in which every send is answered by exactly a
\* line feed and the awaited prompt
RECURSIVE EchoLog(_, _)
EchoLog(inter, k) ==
    IF k = 0 THEN <<>>
    ELSE EchoLog(inter, k - 1) \o inter[k][1] \o <<LF>> \o inter[k][2]

\* the execution of a fetcher of the no-prompt shape (4 interactions) began
\* with an empty buffer, ran to its end and its file was written
NoPromptCompleted ==
    /\ Completed
    /\ leftover = <<>>
    /\ Len(Fetchers[attempt.task].interactions) = 4

ExactEcho ==
    attemptLog = EchoLog(Fetchers[attempt.task].interactions,
                         Len(Fetchers[attempt.task].interactions))

\* the reply to the last send was CR LF, the 4-space line, CR LF and the
\* prompt, every earlier one a line feed and the prompt
BlankLineEcho ==
    LET inter == Fetchers[attempt.task].interactions
    IN  attemptLog = EchoLog(inter, 3) \o inter[4][1]
                        \o <<CR, LF>> \o BLANK4 \o <<CR, LF>> \o inter[4][2]

WrittenFile == disk[Fetchers[attempt.task].filename]

HasMarker(l) == Len(l) >= 4 /\ SubSeq(l, 1, 4) = <<32, 32, 35, 32>>

\* C13: the header trim of a sequence of lines gives the lines from the first
\* one that begins with "  # " on, in order, when there is such a line, and
\* the sequence as it is when there is none.
C13_HeaderTrim ==
    res # <<>> =>
        LET out == res[1]
            M == {i \in 1..Len(arg) : HasMarker(arg[i])}
        IN  IF M = {} THEN out = arg
            ELSE LET f == CHOOSE i \in M : \A j \in M : i <= j
                 IN  /\ Len(out) = Len(arg) - f + 1
                     /\ \A k \in 1..Len(out) : out[k] = arg[f + k - 1]

C13_Witness ==
    /\ res # <<>>
    /\ Len(arg) = 3
    /\ ~HasMarker(arg[1]) /\ HasMarker(arg[2]) /\ HasMarker(arg[3])
    /\ arg[2] # arg[3]
    /\ res[1] = <<arg[2], arg[3]>>

\* C14: the trim of the trailing prompt drops exactly the last two lines when
\* they are "    " and "    REQ   ", and nothing otherwise or when there are
\* fewer than two lines; what is kept is the beginning of the sequence, so
\* only one such pair goes.
C14_TrailingTrim ==
    res # <<>> =>
        LET out == res[1]
            n == Len(arg)
            pair == /\ n >= 2
                    /\ arg[n - 1] = <<32, 32, 32, 32>>
                    /\ arg[n] = <<32, 32, 32, 32, 82, 69, 81, 32, 32, 32>>
        IN  /\ Len(out) = IF pair THEN n - 2 ELSE n
            /\ \A k \in 1..Len(out) : out[k] = arg[k]

C14_Witness ==
    /\ arg = <<BLANK4, REQ_LINE, BLANK4, REQ_LINE>>
    /\ res = << <<BLANK4, REQ_LINE>> >>

RECURSIVE JoinLF(_, _)
JoinLF(lines, k) ==
    IF k = 1 THEN lines[1] ELSE JoinLF(lines, k - 1) \o <<LF>> \o lines[k]

CRs(n) == [k \in 1..n |-> CR]

\* C15: the split on LF gives one slice more than there are line feeds, the
\* slices hold no line feed and joined by line feeds they are the input; each
\* stripped line is its slice less a run of CR at its beginning and a run of
\* CR at its end, and neither begins nor ends with CR, so all the leading and
\* trailing CR go and the bytes in between stay as they are.
C15_StripAllOuterCR ==
    res # <<>> =>
        LET raw == res[1]
            out == res[2]
        IN  /\ Len(raw) = Cardinality({i \in 1..Len(arg) : arg[i] = LF}) + 1
            /\ JoinLF(raw, Len(raw)) = arg
            /\ Len(out) = Len(raw)
            /\ \A i \in 1..Len(out) :
                  /\ \A k \in 1..Len(raw[i]) : raw[i][k] # LF
                  /\ out[i] # <<>> => (out[i][1] # CR /\ out[i][Len(out[i])] # CR)
                  /\ \E a \in 0..Len(raw[i]) : \E b \in 0..Len(raw[i]) :
                        raw[i] = CRs(a) \o out[i] \o CRs(b)

C15_Witness ==
    /\ arg = <<CR, CR, 120, CR, CR>>
    /\ res = << <<arg>>, << <<120>> >> >>

\* C16: a send whose write succeeds leaves the buffer as it was followed by
\* exactly the bytes sent; a send whose write fails ends in the error and
\* leaves the buffer, and the output, as they were.
C16_SendEchoes ==
    /\ [][(pc = "send" /\ pc' = "wait") =>
            /\ buffer' = buffer \o Fetchers[task].interactions[step][1]
            /\ Len(buffer') = Len(buffer) + Len(Fetchers[task].interactions[step][1])
            /\ err' = "none"]_vars
    /\ [][(pc = "send" /\ pc' = "failed") =>
            /\ err' = "write"
            /\ buffer' = buffer
            /\ output' = output]_vars

C16_Witness ==
    /\ err = "write"
    /\ buffer = STARS
    /\ step = 1
    /\ attempt.origin = "restart"

\* C17: the execution in flight is suspended exactly while main is in the
\* menu; a step taken from the menu sends nothing, reads nothing and leaves
\* the buffer, the output and the files as they are, and leads back to the
\* menu, to the suspended execution as it was, to the head of the loop or to
\* the error of stdin; after "r" or "n" main is at the head of the loop with
\* no execution in flight, so what next uses the Console is an execution
\* begun anew.
C17_MenuSuspends ==
    /\ [](resume # "none" <=> pc = "menu")
    /\ [](pending # "fresh" =>
            /\ pc \in {"start", "done"}
            /\ step = 1 /\ output = <<>> /\ resume = "none")
    /\ [][pc = "menu" =>
            /\ buffer' = buffer /\ output' \in {output, <<>>}
            /\ disk' = disk /\ touched' = touched
            /\ trace' = trace /\ attemptLog' = attemptLog
            /\ received' = received
            /\ \/ pc' = "menu" /\ resume' = resume /\ step' = step
                  /\ output' = output /\ pending' = pending
               \/ pc' = resume /\ step' = step /\ output' = output
                  /\ pending' = "fresh"
               \/ pc' \in {"start", "done"} /\ pending' \in {"restart", "skip"}
               \/ pc' = "failed" /\ err' = "stdin"]_vars

C17_Witness ==
    /\ pc = "menu"
    /\ resume = "wait"
    /\ cancels = 2
    /\ step = 2
    /\ buffer # <<>>

\* C18: whatever the constructor and its arguments, the first interaction
\* sends "****\n" and awaits "  # " and the last one awaits "    REQ   ";
\* there are 4 interactions for common_dmo_no_prompt, 6 for cli and 5 for the
\* others.  (The list is a field that fetch only reads through &self: no
\* step of the program assigns it.)
C18_ConstructorShape ==
    res # <<>> =>
        LET inter == res[1].interactions
            n == Len(inter)
        IN  /\ n = CASE arg[1] = "common_dmo_no_prompt" -> 4
                      [] arg[1] = "cli" -> 6
                      [] OTHER -> 5
            /\ inter[1] = << <<42, 42, 42, 42, 10>>, <<32, 32, 35, 32>> >>
            /\ inter[n][2] = <<32, 32, 32, 32, 82, 69, 81, 32, 32, 32>>
            /\ \A k \in 1..n : Len(inter[k]) = 2 /\ inter[k][1][Len(inter[k][1])] = LF

C18_Witness ==
    /\ res # <<>>
    /\ arg[1] = "cli"
    /\ Len(arg[2]) = 2 /\ Len(arg[3]) = 2
    /\ Len(res[1].interactions) = 6
    /\ res[1].interactions[5] = <<arg[3] \o <<LF>>, arg[4]>>

\* C19: a step changes the files only when it is the match of the last
\* interaction of the fetcher of the for loop, every interaction of this
\* execution having been sent and matched in turn, and it changes the file of
\* that fetcher alone; a step from the menu, and a step that ends in an error
\* of the send, of the read or of stdin, leaves the files as they were.
C19_FileOnlyAfterAllMatched ==
    /\ [][disk' # disk =>
            LET n == Len(Fetchers[task].interactions)
            IN  /\ pc = "wait" /\ step = n
                /\ Len(trace') = 2 * n
                /\ \A k \in 1..n : /\ trace'[2 * k - 1] = <<"send", k>>
                                    /\ trace'[2 * k] = <<"match", k>>
                /\ trace = SubSeq(trace', 1, 2 * n - 1)
                /\ \A f \in Filenames :
                      f # Fetchers[task].filename => disk'[f] = disk[f]]_vars
    /\ [][(pc = "menu" \/ err' \in {"write", "eof", "read", "stdin"}) =>
            disk' = disk]_vars

C19_Witness ==
    /\ pending = "skip"
    /\ task = 2
    /\ Len(trace) >= 4
    /\ disk = InitialDisk

\* the bytes sent for, and then read during, each of the first k
\* interactions, one interaction after the other
RECURSIVE Interleave(_, _, _)
Interleave(inter, rcv, k) ==
    IF k = 0 THEN <<>>
    ELSE Interleave(inter, rcv, k - 1) \o inter[k][1] \o rcv[k]

\* the execution began neither after the operator's "r" nor after "n"
Uncancelled == attempt.task # 0 /\ attempt.origin = "fresh" /\ pending = "fresh"

\* C20: in an execution that began with no restart or skip before it, the
\* output so far followed by the buffer is, interaction after interaction,
\* the bytes sent followed by the bytes read while its prompt was awaited,
\* each byte once and in the order of arrival, whatever the number of
\* expiries of the stall timer; when the execution has run to its end the
\* buffer is empty and the output is all of it.
C20_BytesConserved ==
    /\ Uncancelled =>
          /\ Len(received) = Len(trace) - Len(trace) \div 2
          /\ output \o buffer =
                Interleave(Fetchers[attempt.task].interactions, received, Len(received))
    /\ (Uncancelled /\ Completed) =>
          /\ Len(received) = Len(Fetchers[attempt.task].interactions)
          /\ buffer = <<>>
          /\ output =
                Interleave(Fetchers[attempt.task].interactions, received, Len(received))

C20_Witness ==
    /\ Uncancelled
    /\ Completed
    /\ warnings >= 1
    /\ cancels = 0
    /\ \E k \in 1..Len(received) :
          Len(received[k]) > Len(Fetchers[attempt.task].interactions[k][2]) + 1

\* C21: the wait for a prompt ends in a match only in a step that reads at
\* least one byte, and then what is handed back, the whole buffer with the
\* bytes just read, ends with a newline and the prompt; a read after which
\* the buffer does not end so, the prompt followed by more bytes included,
\* is no match: the buffer keeps the bytes and the wait goes on.
C21_MatchOnlyAtChunkEnd ==
    /\ [][trace' = Append(trace, <<"match", step>>) =>
            LET P == Fetchers[task].interactions[step][2]
                got == SubSeq(output', Len(output) + 1, Len(output'))
            IN  /\ pc = "wait"
                /\ Len(received'[step]) > Len(received[step])
                /\ output' = output \o got
                /\ IsPrefix(buffer, got) /\ Len(got) > Len(buffer)
                /\ EndsWithNewlineThenPrompt(got, P)]_vars
    /\ [][(pc = "wait" /\ received' # received
            /\ ~EndsWithNewlineThenPrompt(buffer \o
                    SubSeq(received'[step], Len(received[step]) + 1,
                           Len(received'[step])),
                    Fetchers[task].interactions[step][2])) =>
            /\ pc' = "wait" /\ trace' = trace
            /\ step' = step /\ output' = output
            /\ Len(buffer') > Len(buffer) /\ IsPrefix(buffer, buffer')]_vars

C21_Witness ==
    /\ pc = "wait"
    /\ err = "none"
    /\ step = 2
    /\ ends_with(buffer, <<LF>> \o Fetchers[task].interactions[step][2] \o <<120>>)

=============================================================================
